---- MODULE Spec2Model ----
(***************************************************************************)
(* A model of the Spotify playlist ETL pipeline: the singleton connectors  *)
(* (src/main/connectors), the extractor (src/main/extractors), the         *)
(* transformer (src/main/transfomers), the local and S3 loaders            *)
(* (src/main/loaders) and the orchestrator main (src/main/main.py).        *)
(*                                                                         *)
(* Python values are modelled as records tagged with a "type" field, so    *)
(* that None, a list and a DataFrame can be told apart; a dict is a record *)
(* whose DOMAIN is the set of its keys, so that a missing key is a missing *)
(* field and reading it is a KeyError.                                     *)
(***************************************************************************)
EXTENDS Integers, Sequences, FiniteSets, TLC

VARIABLES
    _instance,      \* per connector class: the class attribute _instance (0 = None, else index into instances)
    instances,      \* per connector class: the connector objects handed to callers, in creation order
    pc,             \* position of the orchestrator run main()
    err,            \* the exception the last call raised ("" when it returned)
    playlist_data,  \* DataExtract.playlist_data / main's playlist_data
    album_data,     \* result of extract_album_data
    artist_data,    \* result of extract_artist_data
    song_data,      \* result of extract_song_data
    album_df,       \* result of transform_album_data
    artist_df,      \* result of transform_artist_data
    song_df,        \* result of transform_song_data
    dirs,           \* local directories that exist
    files,          \* local files: the body at each path (Absent when there is none)
    s3_objects,     \* the bucket: the body at each key (Absent when there is none)
    now,            \* the wall clock, in ticks
    last            \* the last sink call: its sink, entity, record set and log

conn_vars == <<_instance, instances>>
etl_vars  == <<playlist_data, album_data, artist_data, song_data, album_df, artist_df, song_df>>
sink_vars == <<dirs, files, s3_objects, now, last>>
vars == <<_instance, instances, pc, err, playlist_data, album_data, artist_data,
          song_data, album_df, artist_df, song_df, dirs, files, s3_objects, now, last>>

----------------------------------------------------------------------------
(* Bounds of the model *)

\* longest source document (number of items) explored
MaxItems == 3
\* most artists listed on one track of a document explored
MaxArtists == 2

----------------------------------------------------------------------------
(* Python values *)

None == [type |-> "NoneType"]
\* a local variable that has not been assigned yet
Unset == [type |-> "unset"]
PyList(l) == [type |-> "list", v |-> l]
\* d has key k
Has(d, k) == k \in DOMAIN d
IsList(x) == Has(x, "type") /\ x.type = "list"
\* the dict d without key k
Without(d, k) == [f \in DOMAIN d \ {k} |-> d[f]]
\* the dict d with key k set to val
With(d, k, val) == [f \in DOMAIN d \cup {k} |-> IF f = k THEN val ELSE d[f]]

----------------------------------------------------------------------------
(* The source document: one page of playlist-track data *)

ExternalUrls(kind, id) == [spotify |-> <<kind, id>>]

ArtistObj(id, name) ==
    [id |-> id, name |-> name, external_urls |-> ExternalUrls("artist", id)]

AlbumObj(id, name, release_date, album_artists) ==
    [id |-> id, name |-> name, release_date |-> release_date, total_tracks |-> 10,
     external_urls |-> ExternalUrls("album", id), artists |-> album_artists]

TrackObj(id, name, album, artists) ==
    [type |-> "dict", id |-> id, name |-> name, duration_ms |-> 200000, popularity |-> 50,
     external_urls |-> ExternalUrls("track", id), album |-> album, artists |-> artists]

ItemObj(added_at, track) == [added_at |-> added_at, track |-> track]

Artist1 == ArtistObj("a1", "Artist One")
Artist2 == ArtistObj("a2", "Artist Two")

\* item A: a track with one artist, on album X
ItemA == ItemObj("2024-01-01T00:00:00Z",
            TrackObj("s1", "Song One",
                AlbumObj("X", "Album X", "2020-01-01", <<Artist1>>), <<Artist1>>))
\* item B: the track is absent
ItemB == ItemObj("2024-01-02T00:00:00Z", None)
\* item C: a track with two artists, on the same album X, whose album fields
\* differ from item A's (and whose release date does not parse)
ItemC == ItemObj("2024-01-03T00:00:00Z",
            TrackObj("s2", "Song Two",
                AlbumObj("X", "Album X (Deluxe)", "not-a-date", <<Artist1, Artist2>>),
                <<Artist1, ArtistObj("a2", "Artist Two (feat.)")>>))
\* item D: track s1 again (added twice, the second time with an unparsable
\* added_at and another name), on album Y
ItemD == ItemObj("not-a-timestamp",
            TrackObj("s1", "Song One (Live)",
                AlbumObj("Y", "Album Y", "2020-01-01", <<Artist2>>), <<Artist2>>))
\* malformed for the album extraction only: the album has no release_date
ItemNoReleaseDate ==
    ItemObj("2024-01-01T00:00:00Z",
        TrackObj("s2", "Song Two",
            Without(AlbumObj("Y", "Album Y", "2020-01-01", <<Artist2>>), "release_date"),
            <<Artist2>>))
\* malformed for the artist extraction only: a track artist has no external_urls
ItemArtistNoUrl ==
    ItemObj("2024-01-01T00:00:00Z",
        TrackObj("s2", "Song Two",
            AlbumObj("Y", "Album Y", "2020-01-01", <<Artist2>>),
            <<Without(Artist2, "external_urls")>>))
\* malformed for the song extraction only: the track has no popularity
ItemNoPopularity ==
    ItemObj("2024-01-01T00:00:00Z",
        Without(TrackObj("s2", "Song Two",
            AlbumObj("Y", "Album Y", "2020-01-01", <<Artist2>>), <<Artist2>>), "popularity"))
\* otherwise well-formed, but the album lists no album-artist
ItemNoAlbumArtists ==
    ItemObj("2024-01-01T00:00:00Z",
        TrackObj("s2", "Song Two",
            AlbumObj("Y", "Album Y", "2020-01-01", <<>>), <<Artist2>>))

\* well-formed, but the track lists no track-artist
ItemNoTrackArtists ==
    ItemObj("2024-01-01T00:00:00Z",
        TrackObj("s2", "Song Two",
            AlbumObj("Y", "Album Y", "2020-01-01", <<Artist2>>), <<>>))

Items == {ItemA, ItemB, ItemC, ItemD, ItemNoReleaseDate, ItemArtistNoUrl,
          ItemNoPopularity, ItemNoAlbumArtists, ItemNoTrackArtists}

SeqsUpTo(S, n) == UNION {[1..k -> S] : k \in 0..n}

\* the documents the catalog API may return
Docs == {[items |-> s] : s \in SeqsUpTo(Items, MaxItems)}

----------------------------------------------------------------------------
(* DataExtract: src/main/extractors/spotify_extractor.py *)

\* `data['track'] is None`
track_is_None_never(data) == FALSE
track_is_None(data) == data.track = None

\* the lookups of lines 51-55 raise (KeyError, or TypeError on a None track)
album_lookup_raises(data) ==
    \/ ~Has(data.track, "album")
    \/ ~({"id", "name", "release_date", "total_tracks", "external_urls"}
            \subseteq DOMAIN data.track.album)
    \/ ~Has(data.track.album.external_urls, "spotify")

album_dict(data) ==
    [id |-> data.track.album.id,
     name |-> data.track.album.name,
     release_date |-> data.track.album.release_date,
     total_tracks |-> data.track.album.total_tracks,
     url |-> data.track.album.external_urls.spotify]

RECURSIVE album_loop(_, _)
album_loop(items, album_list) ==
    IF items = <<>> THEN PyList(album_list)
    ELSE LET data == Head(items) IN
         IF ~Has(data, "track") THEN None
         ELSE IF track_is_None(data) THEN album_loop(Tail(items), album_list)
         ELSE IF album_lookup_raises(data) THEN None
         ELSE album_loop(Tail(items), Append(album_list, album_dict(data)))

\* any exception inside the try block is logged and the method returns None
extract_album_data(self_playlist_data) ==
    IF ~Has(self_playlist_data, "items") THEN None
    ELSE album_loop(self_playlist_data.items, <<>>)

artist_lookup_raises(artist) ==
    \/ ~({"id", "name", "external_urls"} \subseteq DOMAIN artist)
    \/ ~Has(artist.external_urls, "spotify")

artist_dict(artist) ==
    [id |-> artist.id, name |-> artist.name, url |-> artist.external_urls.spotify]

\* the inner loop of lines 97-106 over one track's artists
RECURSIVE artist_inner_loop(_, _)
artist_inner_loop(artists, artist_list) ==
    IF artists = <<>> THEN PyList(artist_list)
    ELSE IF artist_lookup_raises(Head(artists)) THEN None
    ELSE artist_inner_loop(Tail(artists), Append(artist_list, artist_dict(Head(artists))))

\* the outer loop, extending the list by the whole list so far at every track
RECURSIVE artist_loop_extends_twice(_, _)
artist_loop_extends_twice(items, artist_list) ==
    IF items = <<>> THEN PyList(artist_list)
    ELSE LET data == Head(items) IN
         IF ~Has(data, "track") THEN None
         ELSE IF track_is_None(data) THEN artist_loop_extends_twice(Tail(items), artist_list)
         ELSE IF ~Has(data.track, "artists") THEN None
         ELSE LET inner == artist_inner_loop(data.track.artists, artist_list) IN
              IF inner = None THEN None
              ELSE artist_loop_extends_twice(Tail(items), artist_list \o inner.v)

RECURSIVE artist_loop(_, _)
artist_loop(items, artist_list) ==
    IF items = <<>> THEN PyList(artist_list)
    ELSE LET data == Head(items) IN
         IF ~Has(data, "track") THEN None
         ELSE IF track_is_None(data) THEN artist_loop(Tail(items), artist_list)
         ELSE IF ~Has(data.track, "artists") THEN None
         ELSE LET inner == artist_inner_loop(data.track.artists, artist_list) IN
              IF inner = None THEN None
              ELSE artist_loop(Tail(items), inner.v)

extract_artist_data(self_playlist_data) ==
    IF ~Has(self_playlist_data, "items") THEN None
    ELSE artist_loop(self_playlist_data.items, <<>>)

\* one of the keys read by lines 145-152 is missing (KeyError)
song_key_missing(data) ==
    \/ ~({"id", "name", "duration_ms", "popularity", "external_urls"}
            \subseteq DOMAIN data.track)
    \/ ~Has(data.track.external_urls, "spotify")
    \/ ~Has(data, "added_at")
    \/ ~Has(data.track, "album")
    \/ ~Has(data.track.album, "id")
    \/ ~Has(data.track.album, "artists")

\* line 152, data['track']['album']['artists'][0]: IndexError on an empty list
album_artists_IndexError(data) == Len(data.track.album.artists) = 0

\* the lookups of lines 145-152 raise
song_lookup_raises(data) ==
    \/ song_key_missing(data)
    \/ album_artists_IndexError(data)
    \/ ~Has(data.track.album.artists[1], "id")

\* the record with the id of the last artist of the album's artist list
song_dict_last_album_artist(data) ==
    [id |-> data.track.id,
     name |-> data.track.name,
     added_at |-> data.added_at,
     duration_ms |-> data.track.duration_ms,
     popularity |-> data.track.popularity,
     url |-> data.track.external_urls.spotify,
     album_id |-> data.track.album.id,
     artist_ids |-> data.track.album.artists[Len(data.track.album.artists)].id]

song_dict(data) ==
    [id |-> data.track.id,
     name |-> data.track.name,
     added_at |-> data.added_at,
     duration_ms |-> data.track.duration_ms,
     popularity |-> data.track.popularity,
     url |-> data.track.external_urls.spotify,
     album_id |-> data.track.album.id,
     artist_ids |-> data.track.album.artists[1].id]

RECURSIVE song_loop(_, _)
song_loop(items, song_list) ==
    IF items = <<>> THEN PyList(song_list)
    ELSE LET data == Head(items) IN
         IF ~Has(data, "track") THEN None
         ELSE IF track_is_None(data) THEN song_loop(Tail(items), song_list)
         ELSE IF song_lookup_raises(data) THEN None
         ELSE song_loop(Tail(items), Append(song_list, song_dict(data)))

\* extract_song_data(self, playlist_data): the parameter is required by the
\* signature and never read; the loop runs over self.playlist_data
extract_song_data(self_playlist_data, playlist_data_arg) ==
    IF ~Has(self_playlist_data, "items") THEN None
    ELSE song_loop(self_playlist_data.items, <<>>)

\* the item wraps a track
present(data) == data.track # None
NumPresent(items) == Cardinality({i \in 1..Len(items) : present(items[i])})

\* a call data_extractor.extract_song_data(*args): Python binds the
\* positional arguments to the one required parameter, and raises TypeError
\* when their number is not one
call_extract_song_data(self_playlist_data, args) ==
    IF Len(args) # 1 THEN [type |-> "raise", exc |-> "TypeError"]
    ELSE extract_song_data(self_playlist_data, args[1])

----------------------------------------------------------------------------
(* pandas, as far as TransformData uses it *)

\* an exception raised by a call
Raise(exc) == [type |-> "raise", exc |-> exc]
IsRaise(x) == Has(x, "type") /\ x.type = "raise"

\* pd.DataFrame(): no columns, no rows
EmptyDataFrame == [type |-> "DataFrame", columns |-> <<>>, rows |-> <<>>]

\* df.empty
IsEmpty(df) == Len(df.rows) = 0 \/ Len(df.columns) = 0

\* the keys of the extractor's dicts, in insertion order (the column order)
AlbumKeys == <<"id", "name", "release_date", "total_tracks", "url">>
ArtistKeys == <<"id", "name", "url">>
SongKeys == <<"id", "name", "added_at", "duration_ms", "popularity", "url",
              "album_id", "artist_ids">>

Range(s) == {s[i] : i \in 1..Len(s)}

\* pd.DataFrame(data) for data None or a list of dicts: one column per key
\* that occurs, one row per dict, NaN where a dict lacks a key
pd_DataFrame(data, keys) ==
    IF data = None THEN EmptyDataFrame
    ELSE LET columns == SelectSeq(keys, LAMBDA c : \E i \in 1..Len(data.v) : Has(data.v[i], c))
         IN [type |-> "DataFrame",
             columns |-> columns,
             rows |-> [i \in 1..Len(data.v) |->
                        [c \in Range(columns) |->
                            IF Has(data.v[i], c) THEN data.v[i][c] ELSE "NaN"]]]

\* keep the first row of every value of column subset
RECURSIVE keep_first(_, _, _)
keep_first(rows, subset, kept) ==
    IF rows = <<>> THEN kept
    ELSE IF \E i \in 1..Len(kept) : kept[i][subset] = Head(rows)[subset]
         THEN keep_first(Tail(rows), subset, kept)
         ELSE keep_first(Tail(rows), subset, Append(kept, Head(rows)))

\* keep the last row of every value of column subset
RECURSIVE keep_last(_, _, _)
keep_last(rows, subset, kept) ==
    IF rows = <<>> THEN kept
    ELSE IF \E i \in 1..Len(Tail(rows)) : Tail(rows)[i][subset] = Head(rows)[subset]
         THEN keep_last(Tail(rows), subset, kept)
         ELSE keep_last(Tail(rows), subset, Append(kept, Head(rows)))

drop_duplicates_keep_last(df, subset) ==
    IF subset \notin Range(df.columns) THEN Raise("KeyError")
    ELSE [df EXCEPT !.rows = keep_last(df.rows, subset, <<>>)]

\* df.drop_duplicates(subset=[subset]), keep='first' by default
drop_duplicates(df, subset) ==
    IF subset \notin Range(df.columns) THEN Raise("KeyError")
    ELSE [df EXCEPT !.rows = keep_first(df.rows, subset, <<>>)]

\* pd.to_datetime(value, errors='coerce') of one cell: the parsed time, or
\* NaT for a value that does not parse (the parsable values of one column
\* share one format here, so the format pandas infers for the column does
\* not change what a cell becomes)
to_datetime(value) ==
    CASE value = "2020-01-01" -> "Timestamp('2020-01-01 00:00:00')"
      [] value = "2024-01-01T00:00:00Z" -> "Timestamp('2024-01-01 00:00:00+0000')"
      [] value = "2024-01-02T00:00:00Z" -> "Timestamp('2024-01-02 00:00:00+0000')"
      [] value = "2024-01-03T00:00:00Z" -> "Timestamp('2024-01-03 00:00:00+0000')"
      [] OTHER -> "NaT"

\* df[column] = pd.to_datetime(df[column], errors='coerce')
coerce_column(df, column) ==
    IF column \notin Range(df.columns) THEN Raise("KeyError")
    ELSE [df EXCEPT !.rows =
            [i \in 1..Len(df.rows) |->
                [c \in DOMAIN df.rows[i] |->
                    IF c = column THEN to_datetime(df.rows[i][c]) ELSE df.rows[i][c]]]]

----------------------------------------------------------------------------
(* TransformData: src/main/transfomers/spotify_transformer.py *)

\* any exception inside the try block is logged and pd.DataFrame() returned
transform_album_data(self_album_data) ==
    LET album_df0 == pd_DataFrame(self_album_data, AlbumKeys)
        album_df1 == drop_duplicates(album_df0, "id")
    IN IF IsRaise(album_df1) THEN EmptyDataFrame
       ELSE LET album_df2 == coerce_column(album_df1, "release_date")
            IN IF IsRaise(album_df2) THEN EmptyDataFrame ELSE album_df2

transform_artist_data(self_artist_data) ==
    LET artist_df0 == pd_DataFrame(self_artist_data, ArtistKeys)
        artist_df1 == drop_duplicates(artist_df0, "id")
    IN IF IsRaise(artist_df1) THEN EmptyDataFrame ELSE artist_df1

transform_song_data(self_song_data) ==
    LET song_df0 == pd_DataFrame(self_song_data, SongKeys)
        song_df1 == drop_duplicates(song_df0, "id")
    IN IF IsRaise(song_df1) THEN EmptyDataFrame
       ELSE LET song_df2 == coerce_column(song_df1, "added_at")
            IN IF IsRaise(song_df2) THEN EmptyDataFrame ELSE song_df2

----------------------------------------------------------------------------
(* The connectors: src/main/connectors *)

\* most connector objects of one class explored
MaxInstances == 3

Backends == {"spotify", "s3", "mysql"}

\* the client object a successful connection attempt yields
Client(kind) == [type |-> "client", kind |-> kind]

\* SpotifyConnection.connectAPI: an exception of the connection attempt is
\* logged and swallowed, and spotify_client stays None
connectAPI(up) == IF up THEN Client("spotipy.Spotify") ELSE None

\* S3Connection.connect_to_s3: an exception is logged and raised again
connect_to_s3(up) == IF up THEN Client("boto3.client") ELSE Raise("Exception")

\* MySqlConnection.connect_to_database: an Error is logged and raised again
connect_to_database(up) == IF up THEN Client("mysql.connection") ELSE Raise("Error")

connect(cls, up) ==
    CASE cls = "spotify" -> connectAPI(up)
      [] cls = "s3" -> connect_to_s3(up)
      [] cls = "mysql" -> connect_to_database(up)

\* cls.__init__(config): raises when the class already holds an instance,
\* else connects; the object made, or the exception raised
connector_init(cls, up) ==
    IF _instance[cls] # 0 THEN Raise("Exception: Use get_instance()")
    ELSE LET client == connect(cls, up)
         IN IF IsRaise(client) THEN client
            ELSE [type |-> "connector", client |-> client]

\* cls.get_instance(config): [raised, ret: the index of the object returned,
\* made: the object created (if any), cached: the new value of cls._instance]
get_instance(cls, up) ==
    IF _instance[cls] = 0
    THEN LET obj == connector_init(cls, up)
         IN IF IsRaise(obj)
            THEN [raised |-> obj.exc, made |-> <<>>, cached |-> 0]
            ELSE [raised |-> "", made |-> <<obj>>, cached |-> Len(instances[cls]) + 1]
    ELSE [raised |-> "", made |-> <<>>, cached |-> _instance[cls]]

\* a caller writes cls(config)
Construct(cls, up) ==
    /\ Len(instances[cls]) < MaxInstances
    /\ LET obj == connector_init(cls, up)
       IN IF IsRaise(obj)
          THEN /\ err' = obj.exc
               /\ UNCHANGED instances
          ELSE /\ err' = ""
               /\ instances' = [instances EXCEPT ![cls] = Append(@, obj)]
    /\ UNCHANGED <<_instance, pc, etl_vars, sink_vars>>

\* a caller writes cls.get_instance(config)
GetInstance(cls, up) ==
    /\ _instance[cls] = 0 => Len(instances[cls]) < MaxInstances
    /\ LET r == get_instance(cls, up)
       IN /\ err' = r.raised
          /\ instances' = [instances EXCEPT ![cls] = @ \o r.made]
          /\ _instance' = [_instance EXCEPT ![cls] = r.cached]
    /\ UNCHANGED <<pc, etl_vars, sink_vars>>

InitConn == /\ _instance = [b \in Backends |-> 0]
            /\ instances = [b \in Backends |-> <<>>]
\* nothing written yet, no sink call made
InitSink == /\ dirs = {}
            /\ files = <<>>
            /\ s3_objects = <<>>
            /\ now = 0
            /\ last = Unset
InitData == /\ playlist_data = Unset
            /\ album_data = Unset /\ artist_data = Unset /\ song_data = Unset
            /\ album_df = Unset /\ artist_df = Unset /\ song_df = Unset

InitConnectors == InitConn /\ InitSink /\ InitData /\ pc = "lib" /\ err = ""

NextConn == \E cls \in Backends, up \in BOOLEAN : Construct(cls, up) \/ GetInstance(cls, up)

SpecConn == InitConnectors /\ [][NextConn]_vars

\* C4: for each backend at most one connector object ever exists.
C4_AtMostOneInstance == \A cls \in Backends : Len(instances[cls]) <= 1

\* C7: no connector whose client is uninitialised is handed to a caller or
\* cached as the class's instance: a failed connection attempt raises.
C7_FailedConnectRaises ==
    \A cls \in Backends :
        _instance[cls] # 0 => instances[cls][_instance[cls]].client # None

----------------------------------------------------------------------------
(* The orchestrator: src/main/main.py, one run of main(data_load) in a     *)
(* fresh process                                                           *)

Init == InitConn /\ InitSink /\ InitData /\ pc = "get_instance" /\ err = ""

\* line 18: api_conn = SpotifyConnection.get_instance(config)
main_get_instance ==
    /\ pc = "get_instance"
    /\ \E up \in BOOLEAN :
        LET r == get_instance("spotify", up)
        IN /\ instances' = [instances EXCEPT !["spotify"] = @ \o r.made]
           /\ _instance' = [_instance EXCEPT !["spotify"] = r.cached]
           /\ err' = r.raised
           /\ pc' = IF r.raised = "" THEN "get_playlist_track" ELSE "failed"
    /\ UNCHANGED <<etl_vars, sink_vars>>

\* SpotifyConnection.get_playlist_track(playlist_id): raises when the client
\* is None or the API call fails, else returns the API's document
get_playlist_track(self, response) ==
    IF self.client = None THEN Raise("Exception: Spotify client not initialized")
    ELSE response

\* line 22: playlist_data = api_conn.get_playlist_track(playlist_id)
main_get_playlist_track ==
    /\ pc = "get_playlist_track"
    /\ \E response \in Docs \cup {Raise("SpotifyException")} :
        LET r == get_playlist_track(instances["spotify"][_instance["spotify"]], response)
        IN IF IsRaise(r)
           THEN /\ pc' = "failed" /\ err' = r.exc
                /\ UNCHANGED playlist_data
           ELSE /\ pc' = "extract_album_data" /\ err' = ""
                /\ playlist_data' = r
    /\ UNCHANGED <<conn_vars, sink_vars, album_data, artist_data, song_data,
                   album_df, artist_df, song_df>>

\* line 26: album_data = data_extractor.extract_album_data()
main_extract_album_data ==
    /\ pc = "extract_album_data"
    /\ album_data' = extract_album_data(playlist_data)
    /\ pc' = "extract_artist_data"
    /\ UNCHANGED <<conn_vars, sink_vars, err, playlist_data, artist_data, song_data,
                   album_df, artist_df, song_df>>

\* line 28: artist_data = data_extractor.extract_artist_data()
main_extract_artist_data ==
    /\ pc = "extract_artist_data"
    /\ artist_data' = extract_artist_data(playlist_data)
    /\ pc' = "extract_song_data"
    /\ UNCHANGED <<conn_vars, sink_vars, err, playlist_data, album_data, song_data,
                   album_df, artist_df, song_df>>

\* line 30: song_data = data_extractor.extract_song_data(), with no
\* argument; main catches nothing, so an exception ends the run
main_extract_song_data ==
    /\ pc = "extract_song_data"
    /\ LET r == call_extract_song_data(playlist_data, <<>>)
       IN IF IsRaise(r)
          THEN /\ pc' = "failed" /\ err' = r.exc
               /\ UNCHANGED song_data
          ELSE /\ pc' = "transform" /\ err' = ""
               /\ song_data' = r
    /\ UNCHANGED <<conn_vars, sink_vars, playlist_data, album_data, artist_data,
                   album_df, artist_df, song_df>>

\* Lines 34-54 of main (Transform, Route, Write) run only from pc =
\* "transform", which no run reaches: line 30 always raises.
Next == \/ main_get_instance \/ main_get_playlist_track
        \/ main_extract_album_data \/ main_extract_artist_data \/ main_extract_song_data

Spec == Init /\ [][Next]_vars

\* no item of the document is malformed for any of the three extractions
WellFormed(doc) ==
    /\ \A i \in 1..Len(doc.items) : present(doc.items[i]) =>
            /\ ~album_lookup_raises(doc.items[i])
            /\ ~song_lookup_raises(doc.items[i])
            /\ \A k \in 1..Len(doc.items[i].track.artists) :
                    ~artist_lookup_raises(doc.items[i].track.artists[k])

\* C6: a run whose fetch returned a well-formed document with at least one
\* present track, and in which no sink write failed, does not fail: it goes
\* on through Extract, Transform, Route and Write to Done.
C6_WellFormedRunReachesDone ==
    (/\ playlist_data # Unset
     /\ WellFormed(playlist_data)
     /\ \E i \in 1..Len(playlist_data.items) : present(playlist_data.items[i])
     /\ last = Unset)
        => pc # "failed"

\* C9: a run in which the extraction of an entity failed (returned None)
\* ends with the sink's precondition error (ValueError) for that entity.
C9_FailedExtractionEndsInSinkPrecondition ==
    (/\ pc = "failed"
     /\ (album_data = None \/ artist_data = None \/ song_data = None))
        => err = "ValueError"

----------------------------------------------------------------------------
(* The sinks: src/main/loaders *)

\* the clock runs from 0 to MaxClock ticks
MaxClock == 3
\* clock ticks in one second, the resolution of the key's time stamp
TicksPerSecond == 2

Entities == {"album", "artist", "song"}

\* no file at a path, no object at a key
Absent == [type |-> "absent"]

\* df.to_csv(index=False): the header row, then one line per row, the
\* fields in column order
to_csv(df) ==
    [type |-> "csv",
     header |-> df.columns,
     lines |-> [i \in 1..Len(df.rows) |->
                    [k \in 1..Len(df.columns) |-> df.rows[i][df.columns[k]]]]]

FilePath(dirname, basename) == [dirname |-> dirname, basename |-> basename]

\* main lines 49-51: f"data/album_data_{playlist_id}.csv", ...
MainPath(entity) ==
    FilePath("data", CASE entity = "album" -> "album_data_P.csv"
                       [] entity = "artist" -> "artist_data_P.csv"
                       [] entity = "song" -> "song_data_P.csv")

\* load_all: os.path.join(base_dir, "albums.csv"), ...
AllPath(base_dir, entity) ==
    FilePath(base_dir, CASE entity = "album" -> "albums.csv"
                         [] entity = "artist" -> "artists.csv"
                         [] entity = "song" -> "songs.csv")

\* the file paths the local sink is asked to write
LocalPaths == {MainPath(e) : e \in Entities} \cup {AllPath(d, e) : d \in {"", "data"}, e \in Entities}

\* datetime.now().strftime('%Y-%m-%d_%H-%M-%S'): the clock cut to whole seconds
strftime(clock) == clock \div TicksPerSecond

\* f"{s3_prefix}/albums/albums_{timestamp}.csv"
S3Key(s3_prefix, entity, timestamp) ==
    [prefix |-> s3_prefix, entity |-> entity, timestamp |-> timestamp]

S3Keys == {S3Key("processed-data/spotify", e, t) : e \in Entities, t \in 0..strftime(MaxClock)}

\* the state a sink call works on, what it raised and what it logged
SinkState == [raised |-> "", ret |-> None, dirs |-> dirs, files |-> files,
              s3_objects |-> s3_objects, log |-> <<>>]

\* a line of the log: logger.info / logger.error of a sink
LogLine(level, event, data_type, target) ==
    [level |-> level, event |-> event, data_type |-> data_type, target |-> target]

\* logger.info(...) / logger.error(...)
logger(st, line) == [st EXCEPT !.log = Append(@, line)]

\* _validate_and_save without the df.empty test
validate_and_save_unless_None(st, df, filepath, data_type, io) ==
    IF df = None
    THEN [logger(st, LogLine("error", "no data", data_type, None))
            EXCEPT !.raised = "ValueError"]
    ELSE IF io = "makedirs fails" THEN [st EXCEPT !.raised = "OSError"]
    ELSE LET made == [st EXCEPT !.dirs = @ \cup
                        {IF filepath.dirname = "" THEN "." ELSE filepath.dirname}]
         IN IF io = "to_csv fails"
            THEN [logger(made, LogLine("error", "failed", data_type, filepath))
                    EXCEPT !.raised = "OSError"]
            ELSE logger([made EXCEPT !.files = [@ EXCEPT ![filepath] = to_csv(df)]],
                        LogLine("info", "saved", data_type, filepath))

\* LoadDataLocal._validate_and_save(df, filepath, data_type)
validate_and_save(st, df, filepath, data_type, io) ==
    IF df = None \/ IsEmpty(df)
    THEN [logger(st, LogLine("error", "no data", data_type, None))
            EXCEPT !.raised = "ValueError"]
    ELSE IF io = "makedirs fails" THEN [st EXCEPT !.raised = "OSError"]
    ELSE LET made == [st EXCEPT !.dirs = @ \cup
                        {IF filepath.dirname = "" THEN "." ELSE filepath.dirname}]
         IN IF io = "to_csv fails"
            THEN [logger(made, LogLine("error", "failed", data_type, filepath))
                    EXCEPT !.raised = "OSError"]
            ELSE logger([made EXCEPT !.files = [@ EXCEPT ![filepath] = to_csv(df)]],
                        LogLine("info", "saved", data_type, filepath))

\* LoadDataS3._validate_and_upload(df, s3_key, data_type)
validate_and_upload(st, df, s3_key, data_type, io) ==
    IF df = None \/ IsEmpty(df)
    THEN [logger(st, LogLine("error", "no data", data_type, None))
            EXCEPT !.raised = "ValueError"]
    ELSE IF io = "put_object fails"
    THEN [logger(st, LogLine("error", "failed", data_type, None))
            EXCEPT !.raised = "ClientError"]
    ELSE logger([st EXCEPT !.s3_objects = [@ EXCEPT ![s3_key] = to_csv(df)],
                           !.ret = s3_key],
                LogLine("info", "saved", data_type, s3_key))

\* the record set a loader holds for an entity
df_of(entity) ==
    CASE entity = "album" -> album_df
      [] entity = "artist" -> artist_df
      [] entity = "song" -> song_df

LocalIO == {"ok", "makedirs fails", "to_csv fails"}
S3IO == {"ok", "put_object fails"}

\* what a sink call leaves behind
Commit(st) ==
    /\ err' = st.raised
    /\ dirs' = st.dirs
    /\ files' = st.files
    /\ s3_objects' = st.s3_objects

\* the success line an aggregate logs once its three writes have returned
Finish(st) ==
    IF st.raised # "" THEN st
    ELSE logger(st, LogLine("info", "all saved", "", None))

\* LoadDataLocal.load_album_data / load_artist_data / load_song_data(filepath)
load_data(entity, filepath, io) ==
    /\ pc = "local"
    /\ LET st == validate_and_save(SinkState, df_of(entity), filepath, entity, io)
       IN /\ Commit(st)
          /\ last' = [op |-> "load_data", sink |-> "local", entity |-> entity,
                      df |-> df_of(entity), log |-> st.log]
    /\ UNCHANGED <<conn_vars, etl_vars, pc, now>>

\* load_all going on to the next write after a write has raised
load_all_goes_on_after_failure(base_dir, io1, io2, io3) ==
    /\ pc = "local"
    /\ LET st1 == validate_and_save(SinkState, album_df, AllPath(base_dir, "album"),
                    "album", io1)
           st2 == validate_and_save(st1, artist_df, AllPath(base_dir, "artist"),
                    "artist", io2)
           st3 == validate_and_save(st2, song_df, AllPath(base_dir, "song"),
                    "song", io3)
           st4 == Finish(st3)
       IN /\ Commit(st4)
          /\ last' = [op |-> "load_all", sink |-> "local", entity |-> "",
                      df |-> None, log |-> st4.log]
    /\ UNCHANGED <<conn_vars, etl_vars, pc, now>>

\* LoadDataLocal.load_all(base_dir): the three writes in turn, the first
\* exception ending the call
load_all(base_dir, io1, io2, io3) ==
    /\ pc = "local"
    /\ LET st1 == validate_and_save(SinkState, album_df, AllPath(base_dir, "album"),
                    "album", io1)
           st2 == IF st1.raised # "" THEN st1
                  ELSE validate_and_save(st1, artist_df, AllPath(base_dir, "artist"),
                    "artist", io2)
           st3 == IF st2.raised # "" THEN st2
                  ELSE validate_and_save(st2, song_df, AllPath(base_dir, "song"),
                    "song", io3)
           st4 == Finish(st3)
       IN /\ Commit(st4)
          /\ last' = [op |-> "load_all", sink |-> "local", entity |-> "",
                      df |-> None, log |-> st4.log]
    /\ UNCHANGED <<conn_vars, etl_vars, pc, now>>

\* main lines 48-52 on a LoadDataLocal: load_album_data, load_artist_data,
\* load_song_data in turn, the first exception ending main, then the
\* success line
main_local_writes(io1, io2, io3) ==
    /\ pc = "local"
    /\ LET st1 == validate_and_save(SinkState, album_df, MainPath("album"), "album", io1)
           st2 == IF st1.raised # "" THEN st1
                  ELSE validate_and_save(st1, artist_df, MainPath("artist"), "artist", io2)
           st3 == IF st2.raised # "" THEN st2
                  ELSE validate_and_save(st2, song_df, MainPath("song"), "song", io3)
           st4 == Finish(st3)
       IN /\ Commit(st4)
          /\ last' = [op |-> "main_local_writes", sink |-> "local", entity |-> "",
                      df |-> None, log |-> st4.log]
    /\ UNCHANGED <<conn_vars, etl_vars, pc, now>>

\* LoadDataS3.load_album_data_to_s3 / load_artist_data_to_s3 /
\* load_song_data_to_s3(s3_prefix), with the default prefix
load_data_to_s3(entity, io) ==
    /\ pc = "s3"
    /\ LET st == validate_and_upload(SinkState, df_of(entity),
                    S3Key("processed-data/spotify", entity, strftime(now)), entity, io)
       IN /\ Commit(st)
          /\ last' = [op |-> "load_data_to_s3", sink |-> "s3", entity |-> entity,
                      df |-> df_of(entity), log |-> st.log]
    /\ UNCHANGED <<conn_vars, etl_vars, pc, now>>

\* LoadDataS3.load_all_to_s3(s3_prefix): the three uploads in turn, each
\* reading the clock (which may have moved on by d1, d2 ticks), the first
\* exception ending the call
load_all_to_s3(io1, io2, io3, d1, d2) ==
    /\ pc = "s3"
    /\ now + d1 + d2 <= MaxClock
    /\ LET st1 == validate_and_upload(SinkState, album_df,
                    S3Key("processed-data/spotify", "album", strftime(now)), "album", io1)
           st2 == IF st1.raised # "" THEN st1
                  ELSE validate_and_upload(st1, artist_df,
                    S3Key("processed-data/spotify", "artist", strftime(now + d1)),
                    "artist", io2)
           st3 == IF st2.raised # "" THEN st2
                  ELSE validate_and_upload(st2, song_df,
                    S3Key("processed-data/spotify", "song", strftime(now + d1 + d2)),
                    "song", io3)
           st4 == Finish(st3)
       IN /\ Commit(st4)
          /\ now' = IF st1.raised # "" THEN now
                    ELSE IF st2.raised # "" THEN now + d1 ELSE now + d1 + d2
          /\ last' = [op |-> "load_all_to_s3", sink |-> "s3", entity |-> "",
                      df |-> None, log |-> st4.log]
    /\ UNCHANGED <<conn_vars, etl_vars, pc>>

\* time passes between calls
Tick ==
    /\ pc = "s3"
    /\ now < MaxClock
    /\ now' = now + 1
    /\ UNCHANGED <<conn_vars, etl_vars, pc, err, dirs, files, s3_objects, last>>

\* the tables a transform yields for a document with duplicates
SampleDoc == [items |-> <<ItemA, ItemB, ItemC, ItemD>>]
SampleDf(entity) ==
    CASE entity = "album" -> transform_album_data(extract_album_data(SampleDoc))
      [] entity = "artist" -> transform_artist_data(extract_artist_data(SampleDoc))
      [] entity = "song" -> transform_song_data(extract_song_data(SampleDoc, SampleDoc))

\* LoadDataLocal(album_df, artist_df, song_df) or LoadDataS3(...) over
\* record sets that are None (the default), empty, or hold rows
InitSinks ==
    /\ InitConn
    /\ pc \in {"local", "s3"} /\ err = ""
    /\ playlist_data = Unset
    /\ album_data = Unset /\ artist_data = Unset /\ song_data = Unset
    /\ album_df \in {None, EmptyDataFrame, SampleDf("album")}
    /\ artist_df \in {None, EmptyDataFrame, SampleDf("artist")}
    /\ song_df \in {None, EmptyDataFrame, SampleDf("song")}
    /\ dirs = {}
    /\ files = [f \in LocalPaths |-> Absent]
    /\ s3_objects = [k \in S3Keys |-> Absent]
    /\ now = 0
    /\ last = Unset

NextSinks ==
    \/ \E e \in Entities, io \in LocalIO :
            \E filepath \in {MainPath(e), AllPath("", e)} : load_data(e, filepath, io)
    \/ \E io1, io2, io3 \in LocalIO : load_all("data", io1, io2, io3)
    \/ \E io1, io2, io3 \in LocalIO : main_local_writes(io1, io2, io3)
    \/ \E e \in Entities, io \in S3IO : load_data_to_s3(e, io)
    \/ \E io1, io2, io3 \in S3IO, d1, d2 \in {0, 1} : load_all_to_s3(io1, io2, io3, d1, d2)
    \/ Tick

SpecSinks == InitSinks /\ [][NextSinks]_vars

NoneOrEmpty(df) == df = None \/ IsEmpty(df)

\* C5: a single write call of either sink given a record set that is None
\* or empty raises ValueError and writes nothing: no directory is made, no
\* file written and no object put.
C5_EmptyRejectedWithoutWrite ==
    [][(/\ last' # Unset
        /\ last'.op \in {"load_data", "load_data_to_s3"}
        /\ NoneOrEmpty(last'.df))
            => (/\ err' = "ValueError"
                /\ dirs' = dirs /\ files' = files /\ s3_objects' = s3_objects)]_vars

\* an empty record set was just refused by a sink that has already written
\* another entity's record set
C5_Witness ==
    /\ last # Unset
    /\ last.op \in {"load_data", "load_data_to_s3"}
    /\ last.df # None /\ IsEmpty(last.df)
    /\ err = "ValueError"
    /\ \/ \E f \in LocalPaths : files[f] # Absent
       \/ \E k \in S3Keys : s3_objects[k] # Absent

----------------------------------------------------------------------------
(* The classes used as a library: one DataExtract over a document, one     *)
(* TransformData over what it extracted.                                   *)

\* DataExtract(playlist_data) over any document the API may return
InitETL ==
    /\ InitConn /\ InitSink
    /\ pc = "lib" /\ err = ""
    /\ playlist_data \in Docs
    /\ album_data = Unset /\ artist_data = Unset /\ song_data = Unset
    /\ album_df = Unset /\ artist_df = Unset /\ song_df = Unset

ExtractAlbum ==
    /\ album_data = Unset
    /\ album_data' = extract_album_data(playlist_data)
    /\ UNCHANGED <<conn_vars, sink_vars, pc, err, playlist_data, artist_data, song_data,
                   album_df, artist_df, song_df>>

ExtractArtist ==
    /\ artist_data = Unset
    /\ artist_data' = extract_artist_data(playlist_data)
    /\ UNCHANGED <<conn_vars, sink_vars, pc, err, playlist_data, album_data, song_data,
                   album_df, artist_df, song_df>>

\* extract_song_data called with the argument its signature requires
ExtractSong ==
    /\ song_data = Unset
    /\ song_data' = call_extract_song_data(playlist_data, <<playlist_data>>)
    /\ UNCHANGED <<conn_vars, sink_vars, pc, err, playlist_data, album_data, artist_data,
                   album_df, artist_df, song_df>>

\* TransformData(album_data, artist_data, song_data).transform_album_data()
TransformAlbum ==
    /\ album_data # Unset /\ album_df = Unset
    /\ album_df' = transform_album_data(album_data)
    /\ UNCHANGED <<conn_vars, sink_vars, pc, err, playlist_data, album_data, artist_data,
                   song_data, artist_df, song_df>>

TransformArtist ==
    /\ artist_data # Unset /\ artist_df = Unset
    /\ artist_df' = transform_artist_data(artist_data)
    /\ UNCHANGED <<conn_vars, sink_vars, pc, err, playlist_data, album_data, artist_data,
                   song_data, album_df, song_df>>

TransformSong ==
    /\ song_data # Unset /\ song_df = Unset
    /\ song_df' = transform_song_data(song_data)
    /\ UNCHANGED <<conn_vars, sink_vars, pc, err, playlist_data, album_data, artist_data,
                   song_data, album_df, artist_df>>

NextETL == \/ ExtractAlbum \/ ExtractArtist \/ ExtractSong
           \/ TransformAlbum \/ TransformArtist \/ TransformSong

SpecETL == InitETL /\ [][NextETL]_vars

----------------------------------------------------------------------------
(* Properties of the extractor and the transformer, under SpecETL *)

\* the items of a document that the extraction of one entity cannot read
AlbumMalformed(items) ==
    {i \in 1..Len(items) : present(items[i]) /\ album_lookup_raises(items[i])}
ArtistMalformed(items) ==
    {i \in 1..Len(items) : present(items[i])
        /\ \E k \in 1..Len(items[i].track.artists) :
              artist_lookup_raises(items[i].track.artists[k])}
SongMalformed(items) ==
    {i \in 1..Len(items) : present(items[i]) /\ song_lookup_raises(items[i])}

MapSeq(s, F(_)) == [i \in 1..Len(s) |-> F(s[i])]

RECURSIVE Flatten(_)
Flatten(ss) == IF ss = <<>> THEN <<>> ELSE Head(ss) \o Flatten(Tail(ss))

\* the records of the items an extraction can read, in item order
AlbumRecordsOfReadable(items) ==
    MapSeq(SelectSeq(items, LAMBDA d : present(d) /\ ~album_lookup_raises(d)), album_dict)
ArtistRecordsOfReadable(items) ==
    Flatten(MapSeq(
        SelectSeq(items, LAMBDA d : present(d)
            /\ \A k \in 1..Len(d.track.artists) : ~artist_lookup_raises(d.track.artists[k])),
        LAMBDA d : MapSeq(d.track.artists, artist_dict)))
SongRecordsOfReadable(items) ==
    MapSeq(SelectSeq(items, LAMBDA d : present(d) /\ ~song_lookup_raises(d)), song_dict)

\* C1: when exactly one item of the document is malformed for an extraction
\* and the others are well-formed, the extraction returns the records of the
\* other items, in item order (the malformed item alone is skipped).
C1_MalformedItemSkipped ==
    LET items == playlist_data.items IN
    /\ (album_data # Unset /\ Cardinality(AlbumMalformed(items)) = 1
            /\ Len(AlbumRecordsOfReadable(items)) > 0)
            => album_data = PyList(AlbumRecordsOfReadable(items))
    /\ (artist_data # Unset /\ Cardinality(ArtistMalformed(items)) = 1
            /\ Len(ArtistRecordsOfReadable(items)) > 0)
            => artist_data = PyList(ArtistRecordsOfReadable(items))
    /\ (song_data # Unset /\ Cardinality(SongMalformed(items)) = 1
            /\ Len(SongRecordsOfReadable(items)) > 0)
            => song_data = PyList(SongRecordsOfReadable(items))

\* the document with its absent-track items removed
RemoveAbsent(doc) == [items |-> SelectSeq(doc.items, LAMBDA d : d.track # None)]

\* C2: an item whose track is None contributes no record to any of the three
\* extracted lists and does not change what the other items yield: each
\* extracted value equals the one extracted from the document without its
\* absent-track items, and an extracted album or song list has one record
\* per present track.
C2_AbsentTrackSkipped ==
    /\ album_data # Unset =>
        /\ album_data = extract_album_data(RemoveAbsent(playlist_data))
        /\ IsList(album_data) => Len(album_data.v) = NumPresent(playlist_data.items)
    /\ artist_data # Unset =>
        artist_data = extract_artist_data(RemoveAbsent(playlist_data))
    /\ song_data # Unset =>
        /\ song_data = extract_song_data(RemoveAbsent(playlist_data), playlist_data)
        /\ IsList(song_data) => Len(song_data.v) = NumPresent(playlist_data.items)

\* a document with an absent track between two present ones, all three
\* extractions done and each having produced records
C2_Witness ==
    /\ Len(playlist_data.items) = 3
    /\ ~present(playlist_data.items[2])
    /\ present(playlist_data.items[1]) /\ present(playlist_data.items[3])
    /\ album_data # Unset /\ IsList(album_data) /\ Len(album_data.v) = 2
    /\ artist_data # Unset /\ IsList(artist_data) /\ Len(artist_data.v) >= 2
    /\ song_data # Unset /\ IsList(song_data) /\ Len(song_data.v) = 2

\* C3: when a present track's album has no album-artist and nothing else is
\* wrong with the document, extract_song_data still returns a list with one
\* song record per present track.
C3_EmptyAlbumArtistsTolerated ==
    LET items == playlist_data.items IN
    (/\ song_data # Unset
     /\ \E i \in 1..Len(items) : present(items[i]) /\ ~song_key_missing(items[i])
                                    /\ album_artists_IndexError(items[i])
     /\ \A i \in 1..Len(items) : present(items[i]) => ~song_key_missing(items[i]))
        => /\ IsList(song_data)
           /\ Len(song_data.v) = NumPresent(items)

\* the ids of the records of an extracted value (none when it is None)
RecordIds(data, key) == IF IsList(data) THEN {data.v[i][key] : i \in 1..Len(data.v)} ELSE {}
ColumnValues(df, key) == {df.rows[i][key] : i \in 1..Len(df.rows)}

\* C10: every song record's album_id is the id of an album record produced
\* from the same document, before and after the transform.
C10_SongAlbumIdsReferenceAlbums ==
    /\ (album_data # Unset /\ song_data # Unset)
            => RecordIds(song_data, "album_id") \subseteq RecordIds(album_data, "id")
    /\ (album_df # Unset /\ song_df # Unset)
            => ColumnValues(song_df, "album_id") \subseteq ColumnValues(album_df, "id")

\* the index of the first record of list whose id is id
FirstIndex(list, id) ==
    CHOOSE k \in 1..Len(list) : list[k].id = id /\ \A j \in 1..(k - 1) : list[j].id # id

\* rows is list deduplicated by id, first occurrence kept, order kept, each
\* kept record converted by Conv
StableFirstWins(rows, list, Conv(_)) ==
    /\ \A i, j \in 1..Len(rows) : i # j => rows[i].id # rows[j].id
    /\ {rows[i].id : i \in 1..Len(rows)} = {list[k].id : k \in 1..Len(list)}
    /\ \A i \in 1..Len(rows) : rows[i] = Conv(list[FirstIndex(list, rows[i].id)])
    /\ \A i, j \in 1..Len(rows) :
          i < j => FirstIndex(list, rows[i].id) < FirstIndex(list, rows[j].id)

NonEmptyList(data) == data # Unset /\ IsList(data) /\ Len(data.v) > 0

\* r with its field key replaced by its parsed date-time when it parses,
\* and left as it is when it does not
ParsedIfParsable(r, key) ==
    IF to_datetime(r[key]) = "NaT" THEN r ELSE With(r, key, to_datetime(r[key]))

\* C8 as stated: each transform of a non-empty list has one row per distinct
\* id, in order of first occurrence, and the row carries the field values of
\* the first input record with that id (a date that parses counting as the
\* same value once parsed).
C8_FirstRecordUnchanged ==
    /\ (NonEmptyList(album_data) /\ album_df # Unset)
            => StableFirstWins(album_df.rows, album_data.v,
                    LAMBDA r : ParsedIfParsable(r, "release_date"))
    /\ (NonEmptyList(artist_data) /\ artist_df # Unset)
            => StableFirstWins(artist_df.rows, artist_data.v, LAMBDA r : r)
    /\ (NonEmptyList(song_data) /\ song_df # Unset)
            => StableFirstWins(song_df.rows, song_data.v,
                    LAMBDA r : ParsedIfParsable(r, "added_at"))

\* C8, amended: each transform of a non-empty list has one row per distinct
\* id, in order of first occurrence; the row carries the field values of the
\* first input record with that id, except that the date field (release_date
\* of an album, added_at of a song) is that record's value parsed to a
\* date-time, NaT when it does not parse.
C8_StableFirstOccurrenceWins ==
    /\ (NonEmptyList(album_data) /\ album_df # Unset)
            => StableFirstWins(album_df.rows, album_data.v,
                    LAMBDA r : With(r, "release_date", to_datetime(r.release_date)))
    /\ (NonEmptyList(artist_data) /\ artist_df # Unset)
            => StableFirstWins(artist_df.rows, artist_data.v, LAMBDA r : r)
    /\ (NonEmptyList(song_data) /\ song_df # Unset)
            => StableFirstWins(song_df.rows, song_data.v,
                    LAMBDA r : With(r, "added_at", to_datetime(r.added_at)))

\* two records of the same id and different names, in lists
HasConflict(data) ==
    \E i, j \in 1..Len(data.v) :
        i < j /\ data.v[i].id = data.v[j].id /\ data.v[i].name # data.v[j].name

\* all three transforms done on lists that each hold two records of one id
\* with different field values
C8_Witness ==
    /\ NonEmptyList(album_data) /\ HasConflict(album_data)
    /\ album_df # Unset /\ Len(album_df.rows) < Len(album_data.v)
    /\ NonEmptyList(artist_data) /\ HasConflict(artist_data)
    /\ artist_df # Unset /\ Len(artist_df.rows) < Len(artist_data.v)
    /\ NonEmptyList(song_data) /\ HasConflict(song_data)
    /\ song_df # Unset /\ Len(song_df.rows) < Len(song_data.v)

\* the (item, artist) pairs of a document whose item has a present track
Pairs(items) ==
    {<<i, k>> \in (1..Len(items)) \X (1..MaxArtists) :
        /\ present(items[i])
        /\ k <= Len(items[i].track.artists)}

\* the number of records an extraction produced (none when it returned None)
Rows(data) == IF IsList(data) THEN Len(data.v) ELSE 0

\* C11 as stated: each extraction produces at most as many rows as the
\* document has (item, artist) pairs with a present track.
C11_RowsAtMostPairs ==
    LET n == Cardinality(Pairs(playlist_data.items)) IN
    /\ album_data # Unset => Rows(album_data) <= n
    /\ artist_data # Unset => Rows(artist_data) <= n
    /\ song_data # Unset => Rows(song_data) <= n

\* C11, amended: the artist extraction produces at most as many rows as the
\* document has (item, artist) pairs with a present track; the album and the
\* song extraction produce at most one row per item with a present track,
\* which is at most the number of pairs when every present track lists at
\* least one artist.
C11_RowCountBounds ==
    LET items == playlist_data.items
        n == Cardinality(Pairs(items))
        everyTrackHasArtist ==
            \A i \in 1..Len(items) : present(items[i]) => Len(items[i].track.artists) >= 1
    IN
    /\ artist_data # Unset => Rows(artist_data) <= n
    /\ album_data # Unset =>
        /\ Rows(album_data) <= NumPresent(items)
        /\ everyTrackHasArtist => Rows(album_data) <= n
    /\ song_data # Unset =>
        /\ Rows(song_data) <= NumPresent(items)
        /\ everyTrackHasArtist => Rows(song_data) <= n

\* all three extractions done on a document with an absent track, a track
\* of two artists and a track of no artist, each bound met with equality
C11_Witness ==
    LET items == playlist_data.items IN
    /\ \E i \in 1..Len(items) : ~present(items[i])
    /\ \E i \in 1..Len(items) : present(items[i]) /\ Len(items[i].track.artists) = 2
    /\ \E i \in 1..Len(items) : present(items[i]) /\ Len(items[i].track.artists) = 0
    /\ album_data # Unset /\ IsList(album_data) /\ Rows(album_data) = NumPresent(items)
    /\ artist_data # Unset /\ IsList(artist_data)
    /\ Rows(artist_data) = Cardinality(Pairs(items))
    /\ song_data # Unset /\ IsList(song_data) /\ Rows(song_data) = NumPresent(items)

\* C12 as stated: every song record has exactly the fields id, name,
\* added_at, duration_ms, popularity, url, album_id and artist_id, these names
\* are the header row of the written file, and artist_id is the id of the
\* first artist of the track's album artist list.
C12_SongRecordHasArtistId ==
    LET src == SelectSeq(playlist_data.items, present)
        SpecSongKeys == <<"id", "name", "added_at", "duration_ms", "popularity",
                          "url", "album_id", "artist_id">>
    IN
    /\ (song_data # Unset /\ IsList(song_data)) =>
        \A k \in 1..Len(song_data.v) :
            /\ DOMAIN song_data.v[k] = Range(SpecSongKeys)
            /\ song_data.v[k].artist_id = src[k].track.album.artists[1].id
    /\ (song_df # Unset /\ ~IsEmpty(song_df)) =>
        to_csv(song_df).header = SpecSongKeys

\* C12, amended: every song record has exactly the fields id, name, added_at,
\* duration_ms, popularity, url, album_id and artist_ids, in this order the
\* header row of the file written from a non-empty song table, and the k-th
\* record's artist_ids is the id of the first artist of the album artist list
\* of the k-th item with a present track.
C12_SongRecordHasArtistIds ==
    LET src == SelectSeq(playlist_data.items, present) IN
    /\ (song_data # Unset /\ IsList(song_data)) =>
        /\ Len(song_data.v) = Len(src)
        /\ \A k \in 1..Len(song_data.v) :
            /\ DOMAIN song_data.v[k] = Range(SongKeys)
            /\ song_data.v[k].artist_ids = src[k].track.album.artists[1].id
    /\ (song_df # Unset /\ ~IsEmpty(song_df)) =>
        /\ song_df.columns = SongKeys
        /\ to_csv(song_df).header = SongKeys

\* a song table made from a track whose album lists two different artists,
\* the record carrying the first one
C12_Witness ==
    /\ song_data # Unset /\ IsList(song_data)
    /\ song_df # Unset /\ ~IsEmpty(song_df)
    /\ \E k \in 1..Len(song_data.v) :
        LET artists == SelectSeq(playlist_data.items, present)[k].track.album.artists IN
        /\ Len(artists) = 2
        /\ artists[1].id # artists[2].id
        /\ song_data.v[k].artist_ids = artists[1].id
        /\ \E i \in 1..Len(song_df.rows) : song_df.rows[i].artist_ids = artists[1].id

\* the order in which an aggregate writes the entities
WriteOrder == <<"album", "artist", "song">>

\* the "saved" lines of a log
Saved(log) == SelectSeq(log, LAMBDA l : l.event = "saved")

\* C13: an aggregate write (load_all, load_all_to_s3, main's three local
\* writes) writes albums, artists, songs in this order; the first write that
\* fails raises at once: nothing is logged or written after it, no later
\* entity's target is touched, the targets written before it hold their
\* record sets, and the success line is logged only when all three writes
\* returned.
C13_AggregateStopsAtFirstFailure ==
    [][(/\ last' # Unset
        /\ last'.op \in {"load_all", "load_all_to_s3", "main_local_writes"})
        => LET log == last'.log
               saved == Saved(log)
               n == Len(saved)
           IN
           /\ \A k \in 1..n : log[k] = saved[k] /\ saved[k].data_type = WriteOrder[k]
           /\ \A k \in 1..n :
                IF last'.sink = "local"
                THEN files'[saved[k].target] = to_csv(df_of(WriteOrder[k]))
                ELSE s3_objects'[saved[k].target] = to_csv(df_of(WriteOrder[k]))
           /\ \A f \in LocalPaths :
                files'[f] # files[f] => \E k \in 1..n : saved[k].target = f
           /\ \A key \in S3Keys :
                s3_objects'[key] # s3_objects[key] => \E k \in 1..n : saved[k].target = key
           /\ n < 3 =>
                /\ err' # ""
                /\ NoneOrEmpty(df_of(WriteOrder[n + 1])) => err' = "ValueError"
                /\ Len(log) <= n + 1
                /\ Len(log) = n + 1 =>
                    /\ log[n + 1].level = "error"
                    /\ log[n + 1].data_type = WriteOrder[n + 1]
           /\ n = 3 =>
                /\ err' = ""
                /\ Len(log) = 4
                /\ log[4].event = "all saved"]_vars

\* load_all has written the albums, failed on the artists and left the
\* songs, which it holds, unwritten
C13_Witness ==
    /\ last # Unset
    /\ last.op = "load_all"
    /\ err # ""
    /\ Len(Saved(last.log)) = 1
    /\ Len(last.log) = 2 /\ last.log[2].data_type = "artist"
    /\ files[AllPath("data", "album")] = to_csv(album_df)
    /\ files[AllPath("data", "artist")] = Absent
    /\ ~NoneOrEmpty(song_df)
    /\ files[AllPath("data", "song")] = Absent

\* C14: every upload of a cloud-sink call goes to a key no earlier upload to
\* the bucket has used (a later write never overwrites an earlier artifact),
\* and the keys one call uploads to are pairwise distinct.
C14_UploadKeysAreFresh ==
    [][(/\ last' # Unset
        /\ last' # last
        /\ last'.sink = "s3")
        => LET saved == Saved(last'.log) IN
           /\ \A k \in 1..Len(saved) : s3_objects[saved[k].target] = Absent
           /\ \A j, k \in 1..Len(saved) :
                j # k => saved[j].target # saved[k].target]_vars

====
